---- MODULE Spec2Model ----
(***************************************************************************)
(* Model of src/app.py: the loader load_full_data, the index calculator    *)
(* calculate_annual_percentile_index, get_all_years and main, the latter   *)
(* as far as its messages and its control flow go (the charts and the      *)
(* downloads only read the table).                                         *)
(*                                                                         *)
(* Representation.                                                         *)
(*  - A text (str) is the sequence of the code points of its characters,   *)
(*    so that isdigit, astype(str), strip and zfill are computed character *)
(*    by character: "2020" is <<50, 48, 50, 48>>.                          *)
(*  - A cell is a record [t, v, s]: t is the kind of the value ("int",     *)
(*    "float", "nan", "str"), v its number (an int as itself, a float in   *)
(*    hundredths), s its text.  The keyword counts are whole numbers.      *)
(*  - A table (DataFrame) is [cols, rows]: cols the sequence of column     *)
(*    labels, rows a sequence of functions from the labels to cells.  The  *)
(*    row labels (the index) are not modelled: the loader concatenates     *)
(*    with ignore_index and ends with reset_index(drop=True), and nothing  *)
(*    in the program reads them.                                           *)
(*  - Column labels are ASCII stand-ins of the labels of the source        *)
(*    (RETAIN_COLUMNS, lines 18-28), in the same order.                    *)
(*  - groupby(...).apply hands the grouping column to the applied function *)
(*    (pandas 1.x / 2.x, for which the program was written).               *)
(*  - st_log is the sequence of the messages written with st.title,        *)
(*    st.error, st.success, st.info and st.warning, in order.              *)
(***************************************************************************)
EXTENDS Integers, Sequences, FiniteSets, TLC

VARIABLES wb, pc, sheet_names, df_list, full_df, df_arg, df, full_data,
          st_log, div_years, all_years

vars == <<wb, pc, sheet_names, df_list, full_df, df_arg, df, full_data,
          st_log, div_years, all_years>>

----------------------------------------------------------------------------
(* Bounds of the explored inputs *)

MaxRows == 2

MaxCount == 3

----------------------------------------------------------------------------
(* Column labels *)

COL_CODE == "stock_code"
COL_NAME == "company_name"
COL_YEAR == "year"
COL_INDEX == "index"
COL_TOTAL == "year_total"
COL_OTHER == "remark"

RETAIN_COLUMNS ==
    << COL_CODE, COL_NAME, COL_YEAR, COL_INDEX,
       "ai", "bigdata", "cloud", "blockchain", "digital_use" >>

word_freq_cols == << "ai", "bigdata", "cloud", "blockchain", "digital_use" >>

Range(f) == { f[i] : i \in DOMAIN f }

----------------------------------------------------------------------------
(* Cells *)

IntCell(n) == [t |-> "int", v |-> n, s |-> <<>>]
FloatCell(h) == [t |-> "float", v |-> h, s |-> <<>>]
NaN == [t |-> "nan", v |-> 0, s |-> <<>>]
StrCell(cs) == [t |-> "str", v |-> 0, s |-> cs]

\* the number held by a numeric cell, in hundredths
Hundredths(c) == IF c.t = "int" THEN c.v * 100 ELSE c.v

\* the characters str.isdigit() takes for digits, as ranges <<first, last>>
\* of code points: the ASCII digits 48..57, the superscripts 178, 179, 185,
\* the Arabic-Indic digits 1632..1641, ... the fullwidth digits
\* 65296..65305, ... (every character whose Unicode numeric type is Decimal
\* or Digit, Unicode 14)
DigitRanges ==
    { <<48, 57>>, <<178, 179>>, <<185, 185>>, <<1632, 1641>>,
      <<1776, 1785>>, <<1984, 1993>>, <<2406, 2415>>, <<2534, 2543>>,
      <<2662, 2671>>, <<2790, 2799>>, <<2918, 2927>>, <<3046, 3055>>,
      <<3174, 3183>>, <<3302, 3311>>, <<3430, 3439>>, <<3558, 3567>>,
      <<3664, 3673>>, <<3792, 3801>>, <<3872, 3881>>, <<4160, 4169>>,
      <<4240, 4249>>, <<4969, 4977>>, <<6112, 6121>>, <<6160, 6169>>,
      <<6470, 6479>>, <<6608, 6618>>, <<6784, 6793>>, <<6800, 6809>>,
      <<6992, 7001>>, <<7088, 7097>>, <<7232, 7241>>, <<7248, 7257>>,
      <<8304, 8304>>, <<8308, 8313>>, <<8320, 8329>>, <<9312, 9320>>,
      <<9332, 9340>>, <<9352, 9360>>, <<9450, 9450>>, <<9461, 9469>>,
      <<9471, 9471>>, <<10102, 10110>>, <<10112, 10120>>, <<10122, 10130>>,
      <<42528, 42537>>, <<43216, 43225>>, <<43264, 43273>>,
      <<43472, 43481>>, <<43504, 43513>>, <<43600, 43609>>,
      <<44016, 44025>>, <<65296, 65305>>, <<66720, 66729>>,
      <<68160, 68163>>, <<68912, 68921>>, <<69216, 69224>>,
      <<69714, 69722>>, <<69734, 69743>>, <<69872, 69881>>,
      <<69942, 69951>>, <<70096, 70105>>, <<70384, 70393>>,
      <<70736, 70745>>, <<70864, 70873>>, <<71248, 71257>>,
      <<71360, 71369>>, <<71472, 71481>>, <<71904, 71913>>,
      <<72016, 72025>>, <<72784, 72793>>, <<73040, 73049>>,
      <<73120, 73129>>, <<92768, 92777>>, <<92864, 92873>>,
      <<93008, 93017>>, <<120782, 120831>>, <<123200, 123209>>,
      <<123632, 123641>>, <<125264, 125273>>, <<127232, 127242>>,
      <<130032, 130041>> }

\* the code points of the digits
Digits == UNION { r[1]..r[2] : r \in DigitRanges }

\* the character of the decimal digit d, an ASCII digit
DigitChar(d) == 48 + d

\* str.isdigit(): non-empty and every character a digit
IsDigit(name) == Len(name) > 0 /\ \A k \in 1..Len(name) : name[k] \in Digits

\* the characters str.strip() removes (those str.isspace() accepts)
Whitespace ==
    { 9, 10, 11, 12, 13, 28, 29, 30, 31, 32, 133, 160, 5760, 8192,
      8193, 8194, 8195, 8196, 8197, 8198, 8199, 8200, 8201, 8202, 8232, 8233, 8239, 8287, 12288 }

RECURSIVE NatToStr(_)
NatToStr(n) ==
    IF n < 10 THEN << DigitChar(n) >>
    ELSE NatToStr(n \div 10) \o << DigitChar(n % 10) >>

\* str(int); 45 is "-"
IntToStr(n) == IF n < 0 THEN <<45>> \o NatToStr(-n) ELSE NatToStr(n)

\* str(float) of a float with at most two decimals (h in hundredths):
\* the shortest representation, which always has a fractional part; 46
\* is "."
FloatToStr(h) ==
    LET a == IF h < 0 THEN -h ELSE h
        sign == IF h < 0 THEN <<45>> ELSE <<>>
        frac == a % 100
        fs == IF frac % 10 = 0 THEN << DigitChar(frac \div 10) >>
              ELSE << DigitChar(frac \div 10), DigitChar(frac % 10) >>
    IN sign \o NatToStr(a \div 100) \o <<46>> \o fs

----------------------------------------------------------------------------
(* Tables *)

\* pd.DataFrame(): no column, no row
EmptyDataFrame == [cols |-> <<>>, rows |-> <<>>]

\* DataFrame.empty: some axis has length 0
IsEmpty(t) == Len(t.cols) = 0 \/ Len(t.rows) = 0

HasCol(t, c) == c \in Range(t.cols)

\* t[c] = vals, vals the sequence of the values of the rows: an existing
\* column keeps its place, a new one is appended
SetColumn(t, c, vals) ==
    [cols |-> IF HasCol(t, c) THEN t.cols ELSE Append(t.cols, c),
     rows |-> [k \in 1..Len(t.rows) |->
                 [x \in Range(t.cols) \cup {c} |->
                    IF x = c THEN vals[k] ELSE t.rows[k][x]]]]

\* t[labels], labels a sequence of columns of t
SelectColumns(t, labels) ==
    [cols |-> labels,
     rows |-> [k \in 1..Len(t.rows) |->
                 [x \in Range(labels) |-> t.rows[k][x]]]]

\* t.drop(c, axis=1)
DropColumn(t, c) ==
    SelectColumns(t, SelectSeq(t.cols, LAMBDA x : x # c))

\* the dtype pandas gives a column holding these cells
ColDtype(t, c) ==
    IF \E k \in 1..Len(t.rows) : t.rows[k][c].t = "str" THEN "object"
    ELSE IF \E k \in 1..Len(t.rows) : t.rows[k][c].t \in {"float", "nan"}
         THEN "float64"
         ELSE "int64"

\* astype(str) of one cell of a column of the given dtype: in a float64
\* column every number is a float; <<110, 97, 110>> is "nan"
AsStr(c, dtype) ==
    CASE c.t = "str" -> c.s
      [] c.t = "nan" -> <<110, 97, 110>>
      [] c.t = "float" -> FloatToStr(c.v)
      [] OTHER -> IF dtype = "float64" THEN FloatToStr(c.v * 100)
                  ELSE IntToStr(c.v)

\* Series.str.zfill(width) of a text without sign: "0" (48) is put in
\* front up to the width
ZFill(cs, width) ==
    IF Len(cs) >= width THEN cs
    ELSE [k \in 1..(width - Len(cs)) |-> 48] \o cs

\* line 154: astype(str).str.zfill(6) on the stock-code column
FixStockCode(t) ==
    LET dtype == ColDtype(t, COL_CODE)
    IN SetColumn(t, COL_CODE,
                 [k \in 1..Len(t.rows) |->
                    StrCell(ZFill(AsStr(t.rows[k][COL_CODE], dtype), 6))])

\* the workbook's sheet of that name (sheet names are unique in a workbook)
SheetOf(book, name) ==
    book.sheets[CHOOSE k \in 1..Len(book.sheets) : book.sheets[k].name = name]

\* lines 148-154: one pass of the loop body, up to the append
ReadSheet(book, sheet) ==
    LET raw == SheetOf(book, sheet)
        read == [cols |-> raw.cols, rows |-> raw.rows]
        tagged == SetColumn(read, COL_YEAR,
                            [k \in 1..Len(read.rows) |-> StrCell(sheet)])
        kept == SelectColumns(tagged,
                    SelectSeq(RETAIN_COLUMNS, LAMBDA x : HasCol(tagged, x)))
    IN IF HasCol(kept, COL_CODE) THEN FixStockCode(kept) ELSE kept

RECURSIVE UnionCols(_)
\* the columns of pd.concat (outer join): in order of first appearance
UnionCols(frames) ==
    IF Len(frames) = 0 THEN <<>>
    ELSE LET before == UnionCols(SubSeq(frames, 1, Len(frames) - 1))
             last == frames[Len(frames)]
         IN before \o SelectSeq(last.cols, LAMBDA x : x \notin Range(before))

RECURSIVE ConcatRows(_, _)
ConcatRows(frames, cols) ==
    IF Len(frames) = 0 THEN <<>>
    ELSE LET last == frames[Len(frames)]
         IN ConcatRows(SubSeq(frames, 1, Len(frames) - 1), cols) \o
            [k \in 1..Len(last.rows) |->
               [x \in Range(cols) |->
                  IF HasCol(last, x) THEN last.rows[k][x] ELSE NaN]]

\* pd.concat(df_list, ignore_index=True): a column a frame lacks is NaN
\* in the rows of that frame
Concat(frames) ==
    LET cols == UnionCols(frames)
    IN [cols |-> cols, rows |-> ConcatRows(frames, cols)]

\* fillna(0)
FillNa(t) ==
    [cols |-> t.cols,
     rows |-> [k \in 1..Len(t.rows) |->
                 [x \in Range(t.cols) |->
                    IF t.rows[k][x].t = "nan" THEN IntCell(0)
                    ELSE t.rows[k][x]]]]

----------------------------------------------------------------------------
(* calculate_annual_percentile_index *)

RECURSIVE SumCells(_, _)
\* the sum of the row's cells over a sequence of columns, in hundredths
SumCells(row, labels) ==
    IF Len(labels) = 0 THEN 0
    ELSE SumCells(row, SubSeq(labels, 1, Len(labels) - 1))
         + Hundredths(row[labels[Len(labels)]])

\* line 50: df[word_freq_cols].sum(axis=1) of one row
YearTotal(row) == SumCells(row, word_freq_cols)

\* the labels df[word_freq_cols] does not find (KeyError)
MissingFreqCols(t) == { c \in Range(word_freq_cols) : ~HasCol(t, c) }

\* line 50: the assignment of the temporary column
AddYearTotal(t) ==
    SetColumn(t, COL_TOTAL,
              [k \in 1..Len(t.rows) |-> FloatCell(YearTotal(t.rows[k]))])

MaxOf(S) == CHOOSE m \in S : \A x \in S : x <= m

\* faulty variant of YearMaxTotal: min() in place of max()
YearMinTotal(year_df) ==
    LET S == { year_df.rows[k][COL_TOTAL].v : k \in 1..Len(year_df.rows) }
    IN CHOOSE m \in S : \A x \in S : m <= x

\* faulty variant of YearMaxTotal: the maximum of the whole table, not of
\* the year
YearMaxGlobal(year_df) ==
    MaxOf({ df.rows[k][COL_TOTAL].v : k \in 1..Len(df.rows) })

\* line 54: year_df[total].max()
YearMaxTotal(year_df) ==
    MaxOf({ year_df.rows[k][COL_TOTAL].v : k \in 1..Len(year_df.rows) })

Abs(x) == IF x < 0 THEN -x ELSE x

(* Line 60 is computed in double precision: every operation gives the     *)
(* double nearest to its exact result, ties to the even mantissa.  A       *)
(* positive double is modelled as [m, e]: m the 53 binary digits of its    *)
(* mantissa, most significant first and m[1] = 1, e the exponent of the    *)
(* last digit, so that the value is m * 2^e.                               *)

\* the number of binary digits of n (0 <= n < 2^30)
BitLen(n) == CHOOSE w \in 0..30 : n < 2^w /\ (w = 0 \/ n >= 2^(w - 1))

\* the w binary digits of n, most significant first (n < 2^w)
Bits(n, w) == [i \in 1..w |-> (n \div 2^(w - i)) % 2]

RECURSIVE FromBits(_)
\* the number with these binary digits (at most 30 of them)
FromBits(b) ==
    IF Len(b) = 0 THEN 0
    ELSE IF Len(b) = 1 THEN b[1]
    ELSE LET h == Len(b) \div 2
         IN FromBits(SubSeq(b, 1, h)) * 2^(Len(b) - h)
            + FromBits(SubSeq(b, h + 1, Len(b)))

\* the binary digits of b * k + carry, b the 53 digits of a mantissa and
\* k < 128: the product is taken on three parts of b, of 23, 15 and 15
\* digits
MulBits(b, k, carry) ==
    LET lo == FromBits(SubSeq(b, 39, 53)) * k + carry
        mid == FromBits(SubSeq(b, 24, 38)) * k + lo \div 32768
        hi == FromBits(SubSeq(b, 1, 23)) * k + mid \div 32768
    IN Bits(hi, BitLen(hi)) \o Bits(mid % 32768, 15) \o Bits(lo % 32768, 15)

\* the double nearest to the number with the binary digits b (at least 53,
\* b[1] = 1) whose last digit has exponent e, ties to even
RoundToDouble(b, e) ==
    LET n == Len(b)
        keep == SubSeq(b, 1, 53)
        up == /\ n > 53
              /\ b[54] = 1
              /\ (keep[53] = 1 \/ \E k \in 55..n : b[k] = 1)
        inc == MulBits(keep, 1, 1)
    IN IF ~up THEN [m |-> keep, e |-> e + (n - 53)]
       ELSE IF Len(inc) = 53 THEN [m |-> inc, e |-> e + (n - 53)]
       ELSE [m |-> SubSeq(inc, 1, 53), e |-> e + (n - 53) + 1]

RECURSIVE QuotientBits(_, _, _)
\* the next 10 * n binary digits of rem / den (rem < den < 2^21), and a
\* last digit that is 1 when the digits that follow are not all 0
QuotientBits(rem, den, n) ==
    IF n = 0 THEN << IF rem = 0 THEN 0 ELSE 1 >>
    ELSE Bits((rem * 1024) \div den, 10)
         \o QuotientBits((rem * 1024) % den, den, n - 1)

\* the double num / den of two whole numbers num > 0, den > 0; zeros is
\* the number of 0 digits between the point and the first 1 of a quotient
\* below 1
DoubleDiv(num, den) ==
    LET whole == num \div den
        rem == num % den
        zeros == BitLen((den + rem - 1) \div rem - 1) - 1
    IN IF whole > 0
       THEN RoundToDouble(Bits(whole, BitLen(whole))
                          \o QuotientBits(rem, den, 6), -61)
       ELSE RoundToDouble(QuotientBits(rem * 2^zeros, den, 6), -(zeros + 61))

\* the double x * k, k a whole number below 128
DoubleMul(x, k) == RoundToDouble(MulBits(x.m, k, 0), x.e)

\* rint of a double below 2^30: the nearest whole number, ties to even
DoubleRint(x) ==
    LET n == 53 + x.e
    IN IF n < 0 THEN 0
       ELSE LET whole == FromBits(SubSeq(x.m, 1, n))
                half == x.m[n + 1] = 1
                more == \E k \in (n + 2)..53 : x.m[k] = 1
            IN IF ~half THEN whole
               ELSE IF more THEN whole + 1
               ELSE IF whole % 2 = 0 THEN whole ELSE whole + 1

\* an infinite float; v is its sign
InfCell(sign) == [t |-> "inf", v |-> sign, s |-> <<>>]

\* line 60: (total / year_max_total * 100).round(2), in hundredths, of two
\* whole totals (given in hundredths): the double division, the double
\* product by 100, and round(2), which is the double product by 100, rint,
\* and the division by 100.  A float division by zero raises nothing: it
\* gives NaN for 0 / 0 and an infinity otherwise
ShareOfMax(total, year_max_total) ==
    IF year_max_total = 0
    THEN IF total = 0 THEN NaN ELSE InfCell(IF total < 0 THEN -1 ELSE 1)
    ELSE IF total = 0 THEN FloatCell(0)
    ELSE LET quotient == DoubleDiv(Abs(total) \div 100,
                                   Abs(year_max_total) \div 100)
             share == DoubleMul(quotient, 100)
             rounded == DoubleRint(DoubleMul(share, 100))
         IN FloatCell(IF (total < 0) = (year_max_total < 0)
                      THEN rounded ELSE -rounded)

\* faulty variant of Clip: the upper bound is forgotten
ClipLowerOnly(x, lower, upper) == IF x < lower THEN lower ELSE x

\* clip(lower, upper) of a number
Clip(x, lower, upper) ==
    IF x < lower THEN lower ELSE IF x > upper THEN upper ELSE x

\* line 62: clip(lower=0, upper=100) of a float cell; NaN stays NaN
ClipCell(c) ==
    CASE c.t = "nan" -> c
      [] c.t = "inf" -> FloatCell(IF c.v < 0 THEN 0 ELSE 10000)
      [] OTHER -> FloatCell(Clip(c.v, 0, 10000))

\* faulty variant of YearHasNoFreq: the test of line 56 is left out
YearHasNoFreqNever(year_max_total) == FALSE

\* line 56: the year has no keyword at all
YearHasNoFreq(year_max_total) == year_max_total = 0

\* lines 53-64: _calc_year_index on the rows of one year
CalcYearIndex(year_df) ==
    LET year_max_total == YearMaxTotal(year_df)
        rows == 1..Len(year_df.rows)
        total == [k \in rows |-> year_df.rows[k][COL_TOTAL].v]
        normalised == IF YearHasNoFreq(year_max_total)
                      THEN SetColumn(year_df, COL_INDEX,
                                     [k \in rows |-> FloatCell(0)])
                      ELSE SetColumn(year_df, COL_INDEX,
                             [k \in rows |-> ShareOfMax(total[k], year_max_total)])
        clipped == SetColumn(normalised, COL_INDEX,
                     [k \in rows |-> ClipCell(normalised.rows[k][COL_INDEX])])
    IN SetColumn(clipped, COL_INDEX,
                 [k \in rows |-> IF total[k] = 0 THEN FloatCell(0)
                                 ELSE clipped.rows[k][COL_INDEX]])

\* the rows of t of one year, as groupby hands them to the applied function
YearGroup(t, y) ==
    [cols |-> t.cols,
     rows |-> SelectSeq(t.rows, LAMBDA row : row[COL_YEAR].s = y)]

YearsOf(t) == { t.rows[k][COL_YEAR].s : k \in 1..Len(t.rows) }

\* line 67: groupby(year, group_keys=False).apply(_calc_year_index).  The
\* applied function returns the DataFrame of its group (line 64: return
\* year_df), with the row labels the group had: pandas concatenates the
\* frames it gets back, for one group as for several, and puts the rows
\* back in the order of t.  (Only results that are Series are laid out as
\* one row per group; no Series is returned here, and line 67 rebinds df,
\* it assigns no column.)
GroupByApply(t) ==
    LET done == [y \in YearsOf(t) |-> CalcYearIndex(YearGroup(t, y))]
        yearAt(k) == t.rows[k][COL_YEAR].s
        posInGroup(k) == Cardinality({ j \in 1..k : yearAt(j) = yearAt(k) })
    IN [cols |-> IF HasCol(t, COL_INDEX) THEN t.cols
                 ELSE Append(t.cols, COL_INDEX),
        rows |-> [k \in 1..Len(t.rows) |->
                    done[yearAt(k)].rows[posInGroup(k)]]]

\* the years whose group takes the branch of line 60 (the division)
DividedYears(t) ==
    { y \in YearsOf(t) : ~YearHasNoFreq(YearMaxTotal(YearGroup(t, y))) }

----------------------------------------------------------------------------
(* get_all_years and the query part of main *)

LogEntry(kind, text) == [kind |-> kind, text |-> text]

\* a < b for two texts, as Python compares str: by code point, a proper
\* prefix first
LexLess(a, b) ==
    \E i \in 1..(Len(a) + 1) :
       /\ i <= Len(b)
       /\ \A j \in 1..(i - 1) : a[j] = b[j]
       /\ (i > Len(a) \/ a[i] < b[i])

RECURSIVE SortTexts(_)
\* sorted() of a set of texts
SortTexts(S) ==
    IF S = {} THEN <<>>
    ELSE LET least == CHOOSE x \in S : \A y \in S \ {x} : LexLess(x, y)
         IN <<least>> \o SortTexts(S \ {least})

\* lines 169-173: what get_all_years returns
get_all_years(t) ==
    IF ~HasCol(t, COL_YEAR) THEN <<>> ELSE SortTexts(YearsOf(t))

\* lines 170-171: what get_all_years writes with st.error
YearErrors(t) ==
    IF ~HasCol(t, COL_YEAR) THEN << LogEntry("error", "no_year") >> ELSE <<>>

\* str.strip(): the text without its leading and trailing whitespace
Strip(cs) ==
    LET keep == { k \in 1..Len(cs) : cs[k] \notin Whitespace }
    IN IF keep = {} THEN <<>>
       ELSE SubSeq(cs, CHOOSE k \in keep : \A j \in keep : k <= j, MaxOf(keep))

\* Python's str.zfill(width): "0" (48) is put in front up to the width,
\* after the sign when the text starts with "+" (43) or "-" (45)
PyZFill(cs, width) ==
    IF Len(cs) >= width THEN cs
    ELSE LET zeros == [k \in 1..(width - Len(cs)) |-> 48]
         IN IF Len(cs) > 0 /\ cs[1] \in {43, 45}
            THEN <<cs[1]>> \o zeros \o Tail(cs)
            ELSE zeros \o cs

\* Series.str.contains(pattern) of one text, for a pattern without regular
\* expression operators: the pattern occurs in the text
Contains(text, pattern) ==
    \E i \in 0..(Len(text) - Len(pattern)) :
       SubSeq(text, i + 1, i + Len(pattern)) = pattern

\* the .str accessor raises AttributeError on the column c of the rows
\* taken from t: the column of t is numeric, or there are rows and none of
\* them holds a text in it
StrAccessorRaises(t, rows, c) ==
    \/ ColDtype(t, c) # "object"
    \/ Len(rows) > 0 /\ \A k \in 1..Len(rows) : rows[k][c].t # "str"

\* lines 198-294: the query part of main on the table t with the values
\* of the three widgets.  log is what it writes with st.success, st.info
\* and st.warning; pc is "done" when it runs to its end and "crashed" when
\* an exception ends it (.str on a name column without text, lines 204 and
\* 214; the stock-code column that is not there, line 246)
QueryRun(t, stock_code, company_name, selected_year) ==
    LET code == PyZFill(Strip(stock_code), 6)
        pattern == Strip(company_name)
        by_code == Len(stock_code) > 0 /\ HasCol(t, COL_CODE)
        by_name == Len(company_name) > 0 /\ HasCol(t, COL_NAME)
        \* line 200: filter_cond
        year_rows == SelectSeq(t.rows,
                        LAMBDA row : row[COL_YEAR] = StrCell(selected_year))
        code_rows == SelectSeq(year_rows,
                        LAMBDA row : row[COL_CODE] = StrCell(code))
        \* lines 201-204
        raises204 == ~by_code /\ by_name /\ StrAccessorRaises(t, t.rows, COL_NAME)
        company_all_data ==
            IF by_code THEN [cols |-> t.cols, rows |-> code_rows]
            ELSE IF by_name
            THEN [cols |-> t.cols,
                  rows |-> SelectSeq(year_rows, LAMBDA row :
                              /\ row[COL_NAME].t = "str"
                              /\ Contains(row[COL_NAME].s, pattern))]
            ELSE EmptyDataFrame
        \* lines 207-214
        current_year_data == year_rows
        of_code == IF by_code THEN code_rows ELSE current_year_data
        raises214 == by_name /\ StrAccessorRaises(t, of_code, COL_NAME)
        current_filtered_data ==
            IF by_name
            THEN SelectSeq(of_code, LAMBDA row :
                    /\ row[COL_NAME].t = "str"
                    /\ Contains(row[COL_NAME].s, pattern))
            ELSE of_code
        \* lines 208, 216-220
        success == LogEntry("success", "year_queried")
        info == IF Len(current_filtered_data) > 0
                THEN LogEntry("info", "matched")
                ELSE LogEntry("info", "no_match")
        \* line 239
        found == ~IsEmpty(company_all_data) /\ HasCol(company_all_data, COL_INDEX)
    IN IF raises204 THEN [log |-> <<>>, pc |-> "crashed"]
       ELSE IF raises214 THEN [log |-> <<success>>, pc |-> "crashed"]
       ELSE IF found
       THEN [log |-> <<success, info>>,
             pc |-> IF HasCol(t, COL_CODE) THEN "done" ELSE "crashed"]
       ELSE IF Len(stock_code) > 0 \/ Len(company_name) > 0
       THEN [log |-> <<success, info, LogEntry("warning", "company_not_found")>>,
             pc |-> "done"]
       ELSE [log |-> <<success, info>>, pc |-> "done"]

\* line 192: the stock codes typed in: nothing, " 1"
QueryCodes == { <<>>, <<32, 49>> }

\* line 194: the company names typed in: nothing, "A", "Z"
QueryNames == { <<>>, <<65>>, <<90>> }

----------------------------------------------------------------------------
(* The program: main and load_full_data *)

\* faulty variant of DigitSheetNames: every sheet is kept
AllSheetNames(book) == [k \in 1..Len(book.sheets) |-> book.sheets[k].name]

\* line 141: the sheet names made of digits only, in workbook order
DigitSheetNames(book) ==
    LET names == [k \in 1..Len(book.sheets) |-> book.sheets[k].name]
    IN SelectSeq(names, IsDigit)

\* faulty variant of ExceptReturn: the table built so far is returned
ExceptReturnPartial == full_df

\* line 166: what the handler returns
ExceptReturn == EmptyDataFrame

\* lines 164-166: the handler of every exception raised in the try block
Except ==
    /\ st_log' = Append(st_log, LogEntry("error", "read_failed"))
    /\ full_data' = ExceptReturn
    /\ pc' = "main_check"

\* lines 176, 179: main starts and calls load_full_data
MainStart ==
    /\ pc = "main"
    /\ st_log' = Append(st_log, LogEntry("title", "title"))
    /\ pc' = "load"
    /\ UNCHANGED <<wb, sheet_names, df_list, full_df, df_arg, df, full_data,
                   div_years, all_years>>

\* lines 136-138: the file is not there
LoadFileMissing ==
    /\ pc = "load"
    /\ ~wb.exists
    /\ st_log' = Append(st_log, LogEntry("error", "file_not_found"))
    /\ full_data' = EmptyDataFrame
    /\ pc' = "main_check"
    /\ UNCHANGED <<wb, sheet_names, df_list, full_df, df_arg, df, div_years, all_years>>

\* line 140: pd.ExcelFile raises on a file that is no workbook
LoadOpenRaises ==
    /\ pc = "load"
    /\ wb.exists
    /\ wb.corrupt
    /\ Except
    /\ UNCHANGED <<wb, sheet_names, df_list, full_df, df_arg, df, div_years, all_years>>

\* lines 140-144: no sheet with a digit-only name
LoadNoSheets ==
    /\ pc = "load"
    /\ wb.exists
    /\ ~wb.corrupt
    /\ Len(DigitSheetNames(wb)) = 0
    /\ sheet_names' = DigitSheetNames(wb)
    /\ st_log' = Append(st_log, LogEntry("error", "no_digit_sheet"))
    /\ full_data' = EmptyDataFrame
    /\ pc' = "main_check"
    /\ UNCHANGED <<wb, df_list, full_df, df_arg, df, div_years, all_years>>

\* lines 140-146: the year sheets are selected
LoadSelectSheets ==
    /\ pc = "load"
    /\ wb.exists
    /\ ~wb.corrupt
    /\ Len(DigitSheetNames(wb)) > 0
    /\ sheet_names' = DigitSheetNames(wb)
    /\ df_list' = <<>>
    /\ pc' = "read"
    /\ UNCHANGED <<wb, full_df, df_arg, df, full_data, st_log, div_years, all_years>>

\* lines 147-155: one pass of the loop over sheet_names
LoadReadSheet ==
    /\ pc = "read"
    /\ Len(df_list) < Len(sheet_names)
    /\ df_list' = Append(df_list, ReadSheet(wb, sheet_names[Len(df_list) + 1]))
    /\ UNCHANGED <<wb, pc, sheet_names, full_df, df_arg, df, full_data, st_log,
                   div_years, all_years>>

\* lines 157-161: concat, fillna, and the call of the calculator, which
\* receives the very object full_df names
LoadConcat ==
    /\ pc = "read"
    /\ Len(df_list) = Len(sheet_names)
    /\ full_df' = FillNa(Concat(df_list))
    /\ df_arg' = full_df'
    /\ df' = full_df'
    /\ pc' = "calc"
    /\ UNCHANGED <<wb, sheet_names, df_list, full_data, st_log, div_years, all_years>>

\* line 50 raises KeyError: a keyword column is in no sheet
CalcKeyError ==
    /\ pc = "calc"
    /\ MissingFreqCols(df) # {}
    /\ Except
    /\ UNCHANGED <<wb, sheet_names, df_list, full_df, df_arg, df, div_years, all_years>>

\* line 50: the temporary column is written into the object passed in,
\* which the caller's full_df still names
CalcTotals ==
    /\ pc = "calc"
    /\ MissingFreqCols(df) = {}
    /\ df' = AddYearTotal(df)
    /\ df_arg' = df'
    /\ full_df' = df'
    /\ pc' = "calc_group"
    /\ UNCHANGED <<wb, sheet_names, df_list, full_data, st_log, div_years, all_years>>

\* line 67: df is rebound to the new table groupby.apply builds
CalcGroupApply ==
    /\ pc = "calc_group"
    /\ df' = GroupByApply(df)
    /\ div_years' = DividedYears(df)
    /\ pc' = "calc_drop"
    /\ UNCHANGED <<wb, sheet_names, df_list, full_df, df_arg, full_data, st_log,
                   all_years>>

\* lines 70-72, 161, 163: the temporary column is dropped from the new
\* table, which is returned, bound to full_df and returned to main
CalcDropReturn ==
    /\ pc = "calc_drop"
    /\ df' = DropColumn(df, COL_TOTAL)
    /\ full_df' = df'
    /\ full_data' = df'
    /\ pc' = "main_check"
    /\ UNCHANGED <<wb, sheet_names, df_list, df_arg, st_log, div_years, all_years>>

\* lines 180-181: main returns on an empty table
MainStop ==
    /\ pc = "main_check"
    /\ IsEmpty(full_data)
    /\ pc' = "stopped"
    /\ UNCHANGED <<wb, sheet_names, df_list, full_df, df_arg, df, full_data,
                   st_log, div_years, all_years>>

\* lines 180, 183-186: the table is not empty; main asks get_all_years for
\* the years, and returns with an error message when there is none
MainContinue ==
    /\ pc = "main_check"
    /\ ~IsEmpty(full_data)
    /\ all_years' = get_all_years(full_data)
    /\ st_log' = st_log \o YearErrors(full_data)
                       \o (IF Len(all_years') = 0
                           THEN << LogEntry("error", "no_year") >> ELSE <<>>)
    /\ pc' = IF Len(all_years') = 0 THEN "stopped" ELSE "processing"
    /\ UNCHANGED <<wb, sheet_names, df_list, full_df, df_arg, df, full_data,
                   div_years>>

\* lines 188-294: the rest of main, with the values of the three widgets
MainQuery ==
    /\ pc = "processing"
    /\ \E stock_code \in QueryCodes, company_name \in QueryNames,
          selected_year \in Range(all_years) :
         LET run == QueryRun(full_data, stock_code, company_name,
                             selected_year)
         IN /\ st_log' = st_log \o run.log
            /\ pc' = run.pc
    /\ UNCHANGED <<wb, sheet_names, df_list, full_df, df_arg, df, full_data,
                   div_years, all_years>>

Next ==
    \/ MainStart
    \/ LoadFileMissing
    \/ LoadOpenRaises
    \/ LoadNoSheets
    \/ LoadSelectSheets
    \/ LoadReadSheet
    \/ LoadConcat
    \/ CalcKeyError
    \/ CalcTotals
    \/ CalcGroupApply
    \/ CalcDropReturn
    \/ MainStop
    \/ MainContinue
    \/ MainQuery

----------------------------------------------------------------------------
(* The workbooks explored *)

\* the sheet names "2020", "2021", "info", and "2020" written with the
\* fullwidth digits U+FF10..U+FF19
Y2020 == <<50, 48, 50, 48>>
Y2021 == <<50, 48, 50, 49>>
INFO == <<105, 110, 102, 111>>
FW2020 == <<65298, 65296, 65298, 65296>>

\* column layouts of a sheet
Full == <<COL_CODE, COL_NAME>> \o word_freq_cols
FullIdx == <<COL_CODE, COL_NAME, COL_YEAR, COL_INDEX>> \o word_freq_cols
           \o <<COL_OTHER>>
NoCode == <<COL_NAME>> \o word_freq_cols
NoIds == word_freq_cols
NoFreq == <<COL_CODE, COL_NAME>>
NoBlockchain == <<COL_CODE, COL_NAME, "ai", "bigdata", "cloud", "digital_use">>

Zeros == [c \in Range(word_freq_cols) |-> IntCell(0)]

\* one keyword column holds n, the others 0
OneHot(col, n) == [c \in Range(word_freq_cols) |->
                     IF c = col THEN IntCell(n) ELSE IntCell(0)]

\* the count vectors of a row: all zero, all MaxCount, one column at a
\* value from -2 to MaxCount, and one with an empty cell
CountVecs ==
    {Zeros}
    \cup {[c \in Range(word_freq_cols) |-> IntCell(MaxCount)]}
    \cup {OneHot(col, n) : col \in {"ai", "digital_use"},
                           n \in {-2, -1} \cup (1..MaxCount)}
    \cup {[c \in Range(word_freq_cols) |->
             IF c = "ai" THEN NaN
             ELSE IF c = "cloud" THEN IntCell(1) ELSE IntCell(0)]}

\* the count vectors of the row of a one-row sheet
FewCountVecs ==
    {Zeros, OneHot("ai", 1), [c \in Range(word_freq_cols) |-> IntCell(MaxCount)]}

\* the count vectors of the rows of a year whose totals are 23 and 160:
\* the share 14.375 lies halfway between two hundredths
TieVecs == << OneHot("cloud", 23), OneHot("cloud", 160) >>

\* the forms a stock code takes in a sheet: a short number, a number of
\* more than six digits, an empty cell (the column is then float64), a
\* text ("600519")
CodeCells ==
    {IntCell(1), IntCell(1234567), NaN,
     StrCell(<<54, 48, 48, 53, 49, 57>>)}

\* a sheet row with these columns; the companies are "A" and "B"
MkRow(cols, code, k, vec) ==
    [x \in Range(cols) |->
       CASE x = COL_CODE -> code
         [] x = COL_NAME -> StrCell(IF k = 1 THEN <<65>> ELSE <<66>>)
         [] x = COL_YEAR -> IntCell(1999)
         [] x = COL_INDEX -> FloatCell(12345)
         [] x = COL_OTHER -> StrCell(<<120>>)
         [] OTHER -> vec[x]]

MkSheet(name, cols, codes, vecs) ==
    [name |-> name, cols |-> cols,
     rows |-> [k \in 1..Len(codes) |-> MkRow(cols, codes[k], k, vecs[k])]]

MkBook(sheets) == [exists |-> TRUE, corrupt |-> FALSE, sheets |-> sheets]

SeqsUpTo(S, n) == UNION { [1..m -> S] : m \in 1..n }

\* workbooks on which the load fails
FailingBooks ==
    { [exists |-> FALSE, corrupt |-> FALSE, sheets |-> <<>>],
      [exists |-> TRUE, corrupt |-> TRUE, sheets |-> <<>>],
      MkBook(<< MkSheet(INFO, Full, <<IntCell(1)>>, <<Zeros>>) >>),
      MkBook(<< MkSheet(Y2020, NoFreq, <<IntCell(1)>>, <<Zeros>>) >>) }

Layouts == {Full, FullIdx, NoCode, NoIds, NoFreq, NoBlockchain}

\* the sheets of a workbook made of a sheet big and, but for the
\* arrangement "single", a one-row sheet small
Arrange(arrangement, big, small) ==
    CASE arrangement = "single" -> <<big>>
      [] arrangement = "big_first" -> <<big, small>>
      [] OTHER -> <<small, big>>

InitWith(book) ==
    /\ wb = book
    /\ pc = "main"
    /\ sheet_names = <<>>
    /\ df_list = <<>>
    /\ full_df = EmptyDataFrame
    /\ df_arg = EmptyDataFrame
    /\ df = EmptyDataFrame
    /\ full_data = EmptyDataFrame
    /\ st_log = <<>>
    /\ div_years = {}
    /\ all_years = <<>>

\* the runs over the layouts: workbooks that vary the sheet names, the
\* column layouts and the forms of the stock code (a sheet of up to MaxRows
\* rows, alone or with a one-row sheet), and the failing workbooks
Init ==
    \/ \E book \in FailingBooks : InitWith(book)
    \/ \E names \in {<<Y2020, Y2021>>, <<Y2020, INFO>>, <<Y2021, INFO>>,
                      <<FW2020, INFO>>},
          arrangement \in {"single", "big_first", "small_first"},
          cols \in Layouts, codes \in SeqsUpTo(CodeCells, MaxRows),
          cols2 \in Layouts, code2 \in CodeCells :
         /\ arrangement = "big_first" => names # <<Y2020, INFO>>
         /\ arrangement = "small_first" => names = <<Y2020, INFO>>
         /\ arrangement = "single" =>
               names = <<Y2020, Y2021>> /\ cols2 = Full /\ code2 = NaN
         /\ InitWith(MkBook(Arrange(arrangement,
               MkSheet(names[1], cols, codes,
                       [k \in 1..Len(codes) |-> OneHot("ai", k)]),
               MkSheet(names[2], cols2, <<code2>>, <<OneHot("bigdata", 4)>>))))

Spec == Init /\ [][Next]_vars

\* the runs over the keyword counts: a year sheet of up to MaxRows rows
\* (or the two rows of TieVecs), alone or next to a one-row sheet of the
\* other year, and the failing workbooks
InitCounts ==
    \/ \E book \in FailingBooks : InitWith(book)
    \/ \E arrangement \in {"single", "big_first", "small_first"},
          cols \in {Full, FullIdx},
          vecs \in SeqsUpTo(CountVecs, MaxRows) \cup {TieVecs},
          vec2 \in FewCountVecs :
         /\ arrangement = "single" => vec2 = Zeros
         /\ InitWith(MkBook(Arrange(arrangement,
               MkSheet(Y2020, cols, [k \in 1..Len(vecs) |-> IntCell(k)], vecs),
               MkSheet(Y2021, Full, <<IntCell(7)>>, <<vec2>>))))

SpecCounts == InitCounts /\ [][Next]_vars

----------------------------------------------------------------------------
(* Properties *)

\* load_full_data has returned to main
Loaded == pc \in {"main_check", "stopped", "processing", "done", "crashed"}

RowsOf(t) == 1..Len(t.rows)

IndexAt(t, k) == t.rows[k][COL_INDEX].v

\* the sum of the five keyword counts of a record
FreqSum(row) ==
    row["ai"].v + row["bigdata"].v + row["cloud"].v + row["blockchain"].v
    + row["digital_use"].v

AllZero(row) == \A c \in Range(word_freq_cols) : row[c].v = 0

NonNegative(row) == \A c \in Range(word_freq_cols) : row[c].v >= 0

\* the records of the year of record k
SameYear(t, k) == { j \in RowsOf(t) : t.rows[j][COL_YEAR] = t.rows[k][COL_YEAR] }

\* a text made of the digits 0 to 9 (code points 48..57)
OnlyDigits(name) ==
    /\ name # <<>>
    /\ \A k \in DOMAIN name : name[k] \in 48..57

\* a sheet name made of digits, written in ASCII (48..57) or in fullwidth
\* form (65296..65305), the two forms the explored names have
DigitName(name) ==
    /\ name # <<>>
    /\ \A k \in DOMAIN name : name[k] \in (48..57) \cup (65296..65305)

\* the sheets of the workbook whose name is made of digits
YearSheets(book) == SelectSeq(book.sheets, LAMBDA sh : DigitName(sh.name))

\* the title main writes first
Title == LogEntry("title", "title")

Readable(book) == book.exists /\ ~book.corrupt

\* some keyword column is in none of the year sheets
FreqColMissing(book) ==
    \E c \in Range(word_freq_cols) :
       \A k \in DOMAIN YearSheets(book) : c \notin Range(YearSheets(book)[k].cols)

HasError == \E k \in DOMAIN st_log : st_log[k].kind = "error"

HasWarning == \E k \in DOMAIN st_log : st_log[k].kind = "warning"

\* C1: in the table load_full_data returns, every record's transformation
\* index is a number between 0 and 100 (0 and 10000 hundredths).
C1_IndexBounds ==
    Loaded =>
      \A k \in RowsOf(full_data) :
         /\ full_data.rows[k][COL_INDEX].t = "float"
         /\ 0 <= IndexAt(full_data, k)
         /\ IndexAt(full_data, k) <= 10000

\* a returned table of two years, one of them with two different totals
\* that are both below zero, so that a share of the maximum exceeds 100
C1_Witness ==
    /\ pc = "processing"
    /\ \E k \in RowsOf(full_data) : SameYear(full_data, k) # RowsOf(full_data)
    /\ \E k \in RowsOf(full_data) :
         /\ FreqSum(full_data.rows[k]) < -1
         /\ \A j \in SameYear(full_data, k) : FreqSum(full_data.rows[j]) < 0
         /\ Cardinality(SameYear(full_data, k)) > 1

\* C2: in every year group whose counts are non-negative and in which some
\* record has a nonzero sum of counts, the largest index is 100.
C2_YearLeader ==
    Loaded =>
      \A k \in RowsOf(full_data) :
         ( /\ \A j \in SameYear(full_data, k) : NonNegative(full_data.rows[j])
           /\ \E j \in SameYear(full_data, k) : FreqSum(full_data.rows[j]) # 0 )
         => /\ \E j \in SameYear(full_data, k) : IndexAt(full_data, j) = 10000
            /\ \A j \in SameYear(full_data, k) : IndexAt(full_data, j) <= 10000

\* a year of two records, one the leader, the other with a zero sum
C2_Witness ==
    /\ pc = "processing"
    /\ \E k \in RowsOf(full_data) :
         /\ \A j \in SameYear(full_data, k) : NonNegative(full_data.rows[j])
         /\ FreqSum(full_data.rows[k]) > 0
         /\ \E j \in SameYear(full_data, k) : FreqSum(full_data.rows[j]) = 0

\* C3: a record whose counts sum to 0 has index 0; in a year whose records
\* all have all-zero counts every index is 0 and the division by the year
\* maximum is not performed.
C3_ZeroForcesZero ==
    Loaded =>
      \A k \in RowsOf(full_data) :
         /\ FreqSum(full_data.rows[k]) = 0 => IndexAt(full_data, k) = 0
         /\ (\A j \in SameYear(full_data, k) : AllZero(full_data.rows[j]))
            => /\ full_data.rows[k][COL_YEAR].s \notin div_years
               /\ \A j \in SameYear(full_data, k) : IndexAt(full_data, j) = 0

\* an all-zero year of two records next to a year that is divided, and a
\* zero record in a divided year
C3_Witness ==
    /\ pc = "processing"
    /\ div_years # {}
    /\ \E k \in RowsOf(full_data) :
         /\ Cardinality(SameYear(full_data, k)) > 1
         /\ \A j \in SameYear(full_data, k) : AllZero(full_data.rows[j])

\* C4: in the table load_full_data returns, every stock code is a text of
\* exactly 6 characters, all digits.
C4_StockCodePadded ==
    (Loaded /\ HasCol(full_data, COL_CODE)) =>
      \A k \in RowsOf(full_data) :
         /\ full_data.rows[k][COL_CODE].t = "str"
         /\ Len(full_data.rows[k][COL_CODE].s) = 6
         /\ OnlyDigits(full_data.rows[k][COL_CODE].s)

\* the workbook has two year sheets, a well-formed one and one that has
\* neither the stock-code nor the company-name column
WellFormed(sh) ==
    {COL_CODE, COL_NAME} \cup Range(word_freq_cols) \subseteq Range(sh.cols)

LacksIds(sh) == COL_CODE \notin Range(sh.cols) /\ COL_NAME \notin Range(sh.cols)

DropScenario(good, bad) ==
    /\ Readable(wb)
    /\ Len(wb.sheets) = 2
    /\ {good, bad} = {1, 2}
    /\ DigitName(wb.sheets[good].name) /\ WellFormed(wb.sheets[good])
    /\ DigitName(wb.sheets[bad].name) /\ LacksIds(wb.sheets[bad])

\* C5: the returned table holds only the rows of the well-formed sheet, and
\* when load_full_data returns a warning has been recorded for the dropped
\* sheet.
C5_SheetDropped ==
    \A good, bad \in {1, 2} :
       (Loaded /\ DropScenario(good, bad)) =>
          /\ Len(full_data.rows) = Len(wb.sheets[good].rows)
          /\ \A k \in RowsOf(full_data) :
                full_data.rows[k][COL_YEAR] = StrCell(wb.sheets[good].name)
          /\ pc = "main_check" => HasWarning

\* the year sheets exist and none of them has any keyword column
NoFreqAnywhere(book) ==
    /\ Readable(book)
    /\ YearSheets(book) # <<>>
    /\ \A k \in DOMAIN YearSheets(book) :
          Range(YearSheets(book)[k].cols) \cap Range(word_freq_cols) = {}

RECURSIVE RowCount(_)
RowCount(sheets) ==
    IF sheets = <<>> THEN 0
    ELSE Len(sheets[1].rows) + RowCount(Tail(sheets))

\* C6: when no selected sheet has the keyword columns the load does not
\* fail: no error is recorded, all rows are kept and every index is 0.
C6_MissingFreqIsZero ==
    (Loaded /\ NoFreqAnywhere(wb)) =>
       /\ ~HasError
       /\ Len(full_data.rows) = RowCount(YearSheets(wb))
       /\ \A k \in RowsOf(full_data) : IndexAt(full_data, k) = 0

\* the load fails: no file, no workbook in the file, no year sheet, or a
\* keyword column that no year sheet has
LoadFails(book) ==
    \/ ~book.exists
    \/ book.corrupt
    \/ YearSheets(book) = <<>>
    \/ FreqColMissing(book)

\* C7: every failure inside load_full_data ends in an empty table returned
\* with an error message, and main then stops without going on: it asks
\* for no year, runs no query, and writes nothing after the error.
C7_FailureIsEmptyTable ==
    /\ pc \in {"main", "load", "read", "calc", "calc_group", "calc_drop",
               "main_check", "stopped", "processing", "done", "crashed"}
    /\ (Loaded /\ LoadFails(wb)) =>
          /\ full_data = EmptyDataFrame
          /\ pc \in {"main_check", "stopped"}
          /\ Len(st_log) = 2
          /\ st_log[1] = Title
          /\ st_log[2].kind = "error"
          /\ all_years = <<>>
    /\ LoadFails(wb) => pc \notin {"calc_group", "calc_drop"}

\* main has stopped after a KeyError raised by the calculator on a table
\* of MaxRows rows
C7_Witness ==
    /\ pc = "stopped"
    /\ Readable(wb)
    /\ YearSheets(wb) # <<>>
    /\ FreqColMissing(wb)
    /\ Len(full_df.rows) > MaxRows
    /\ st_log = <<Title, LogEntry("error", "read_failed")>>

\* C8: after calculate_annual_percentile_index has returned, the table
\* object passed in is as the caller built it, and the result has the same
\* rows and the same columns, the index column added if it was not there.
C8_InputUnchanged ==
    (Loaded /\ ~IsEmpty(full_data)) =>
       /\ df_arg = FillNa(Concat(df_list))
       /\ Len(full_data.rows) = Len(df_arg.rows)
       /\ Range(full_data.cols) = Range(df_arg.cols) \cup {COL_INDEX}

\* C9: in a year whose largest sum of counts yearMax is not 0, the index of
\* a record is yearTotal / yearMax * 100 rounded to 2 decimals and clipped
\* to [0, 100], yearTotal the sum of its five counts and yearMax the largest
\* sum among the records of the same year; an index read from the sheet is
\* overwritten.
C9_ShareOfYearMax ==
    Loaded =>
      \A k \in RowsOf(full_data) :
         LET total == FreqSum(full_data.rows[k])
             totals == { FreqSum(full_data.rows[j]) : j \in SameYear(full_data, k) }
             yearMax == CHOOSE m \in totals : \A x \in totals : x <= m
             index == IndexAt(full_data, k)
         IN yearMax # 0 =>
              IF (total >= 0 /\ yearMax < 0) \/ (total <= 0 /\ yearMax > 0)
              THEN index = 0
              ELSE IF Abs(total) >= Abs(yearMax)
              THEN index = 10000
              ELSE 2 * Abs(index * yearMax - total * 10000) <= Abs(yearMax)

\* two years with different maxima, the sheet of one with an index column
\* of its own, and an index that needed rounding
C9_Witness ==
    /\ pc = "processing"
    /\ \E k \in DOMAIN wb.sheets : COL_INDEX \in Range(wb.sheets[k].cols)
    /\ \E k, j \in RowsOf(full_data) :
         /\ j \notin SameYear(full_data, k)
         /\ FreqSum(full_data.rows[j]) > FreqSum(full_data.rows[k])
         /\ IndexAt(full_data, j) = 10000
         /\ IndexAt(full_data, k) = 10000
    /\ \E k \in RowsOf(full_data) : IndexAt(full_data, k) % 100 # 0

RECURSIVE TaggedRows(_)
\* the rows of the sheets, in order, each with the name of its sheet
TaggedRows(sheets) ==
    IF sheets = <<>> THEN <<>>
    ELSE [k \in 1..Len(sheets[1].rows) |->
            [name |-> sheets[1].name, cols |-> Range(sheets[1].cols),
             row |-> sheets[1].rows[k]]]
         \o TaggedRows(Tail(sheets))

\* C10: the sheets kept are exactly those with a digit-only name; every row
\* of every kept sheet is in the returned table, in order, with the name of
\* its sheet as year, whatever year column the sheet has.
C10_YearSheets ==
    /\ pc \notin {"main", "load"} /\ Readable(wb) =>
         sheet_names = [k \in DOMAIN YearSheets(wb) |-> YearSheets(wb)[k].name]
    /\ (Loaded /\ ~LoadFails(wb)) =>
         LET expected == TaggedRows(YearSheets(wb))
         IN /\ Len(full_data.rows) = Len(expected)
            /\ \A k \in RowsOf(full_data) :
                 /\ full_data.rows[k][COL_YEAR] = StrCell(expected[k].name)
                 /\ \A c \in (expected[k].cols \cap Range(RETAIN_COLUMNS))
                              \ {COL_CODE, COL_YEAR, COL_INDEX} :
                      full_data.rows[k][c] =
                         IF expected[k].row[c] = NaN THEN IntCell(0)
                         ELSE expected[k].row[c]

\* a workbook with a sheet that is no year sheet and a year sheet of
\* MaxRows rows, named in fullwidth digits and with a year column of its
\* own, has been loaded
C10_Witness ==
    /\ pc = "processing"
    /\ Len(wb.sheets) = 2
    /\ Len(YearSheets(wb)) = 1
    /\ YearSheets(wb)[1].name[1] > 127
    /\ COL_YEAR \in Range(YearSheets(wb)[1].cols)
    /\ Len(full_data.rows) = MaxRows

====
